---- MODULE Spec2Model ----
(***************************************************************************)
(* Model of the consul resolver of grpc-consul-resolver:                   *)
(* consulResolver (query, filterPreferOnlyHealthy, addressesEqual,         *)
(* watcher, ResolveNow, Close) and the Build path that starts it.          *)
(*                                                                         *)
(* Strings are sequences of byte values, so that net.JoinHostPort,         *)
(* fmt.Sprint and Go's bytewise string order are computed, not assumed.    *)
(* A Go slice is a record [nil, elems]: a nil slice and an empty non-nil   *)
(* slice have the same elems and a different nil flag.                     *)
(***************************************************************************)
EXTENDS Integers, Sequences, FiniteSets, TLC

\* ------------------------------------------------------------------ bounds
\* Cursors (consul LastIndex values) returned by the backend: 0..MaxCursor.
MaxCursor == 2
\* Longest entry list a backend response carries.
MaxEntries == 2
\* Number of goroutines that call Close().
NumClosers == 2

\* ------------------------------------------------- constants of the program
\* cap of the resolveNow channel: make(chan struct{}, 1)
ResolveNowCap == 1
\* time.Since(queryStartTime) < 50*time.Millisecond
FastResponseMs == 50
\* time.Sleep(50 * time.Millisecond)
SleepMs == 50

healthFilterOnlyHealthy == "healthFilterOnlyHealthy"
healthFilterFallbackToUnhealthy == "healthFilterFallbackToUnhealthy"
HealthPassing == "passing"
HealthCritical == "critical"

\* ------------------------------------------------------------ byte strings
ChColon == 58
ChLBracket == 91
ChRBracket == 93
ChZero == 48
StrEmpty == << >>
StrA == << 97 >>
StrB == << 98 >>

\* Go's < on strings: bytewise lexicographic, a proper prefix is smaller.
RECURSIVE StrLess(_, _)
StrLess(s, t) ==
    IF t = << >> THEN FALSE
    ELSE IF s = << >> THEN TRUE
    ELSE IF s[1] # t[1] THEN s[1] < t[1]
    ELSE StrLess(Tail(s), Tail(t))

\* fmt.Sprint of a non-negative int: its decimal digits.
RECURSIVE Sprint(_)
Sprint(n) ==
    IF n < 10 THEN << ChZero + n >>
    ELSE Append(Sprint(n \div 10), ChZero + (n % 10))

\* net.JoinHostPort: "host:port", "[host]:port" when host holds a colon.
JoinHostPort(host, port) ==
    IF \E i \in 1..Len(host) : host[i] = ChColon
    THEN << ChLBracket >> \o host \o << ChRBracket, ChColon >> \o port
    ELSE host \o << ChColon >> \o port

\* ------------------------------------------------------------------ slices
NilSlice == [nil |-> TRUE, elems |-> << >>]
MkSlice(s) == [nil |-> FALSE, elems |-> s]

\* ------------------------------------------------- backend responses (input)
\* consul.ServiceEntry reduced to the fields query() reads: Service.Address,
\* Node.Address, Service.Port and Checks.AggregatedStatus().
\* Two instances in either health state: one registered with a service
\* address and port 10 ("a:10"), one without service address on node "a" and
\* port 9 ("a:9", which sorts after "a:10").
ServiceAddresses == {StrEmpty, StrA}
NodeAddresses == {StrA}
Ports == {9, 10}
Statuses == {HealthPassing, HealthCritical}
ServiceEntry ==
    {e \in [svc : ServiceAddresses, node : NodeAddresses, port : Ports,
            status : Statuses] : (e.svc = StrEmpty) <=> (e.port = 9)}

RECURSIVE SeqsUpTo(_, _)
SeqsUpTo(S, n) ==
    IF n = 0 THEN {<< >>}
    ELSE LET shorter == SeqsUpTo(S, n - 1)
         IN shorter \cup {Append(s, x) : s \in {t \in shorter : Len(t) = n - 1}, x \in S}

Responses == SeqsUpTo(ServiceEntry, MaxEntries)
Cursors == 0..MaxCursor
\* time.Since(queryStartTime) in ms: one value on each side of the threshold
Elapsed == {FastResponseMs - 1, FastResponseMs}

\* ------------------------------------------------ pure functions of the code
filterPreferOnlyHealthyNoFallback(entries) ==
    SelectSeq(entries, LAMBDA e : e.status = HealthPassing)

filterPreferOnlyHealthy(entries) ==
    LET healthy == SelectSeq(entries, LAMBDA e : e.status = HealthPassing)
    IN IF Len(healthy) # 0 THEN healthy ELSE entries

\* the address of one entry: Service.Address, Node.Address when that is ""
EntryAddr(e) ==
    LET addr == IF e.svc = StrEmpty THEN e.node ELSE e.svc
    IN JoinHostPort(addr, Sprint(e.port))

\* query() after a successful ServiceMultipleTags: filter, then one address
\* per entry, in entry order; result is made with make() and so never nil.
query(hf, entries) ==
    LET es == IF hf = healthFilterFallbackToUnhealthy
              THEN filterPreferOnlyHealthy(entries)
              ELSE entries
    IN MkSlice([i \in 1..Len(es) |-> EntryAddr(es[i])])

addressesEqualLengths(a, b) == a.nil = b.nil /\ Len(a.elems) = Len(b.elems)

addressesEqualNoNil(a, b) ==
    /\ Len(a.elems) = Len(b.elems)
    /\ \A i \in 1..Len(a.elems) : a.elems[i] = b.elems[i]

addressesEqual(a, b) ==
    IF a.nil /\ ~b.nil THEN FALSE
    ELSE IF ~a.nil /\ b.nil THEN FALSE
    ELSE IF Len(a.elems) # Len(b.elems) THEN FALSE
    ELSE \A i \in 1..Len(a.elems) : a.elems[i] = b.elems[i]

\* sort.Slice(addresses, less) with less = Addr < Addr. Elements that compare
\* equal are identical strings, so every sorting algorithm gives this result.
RECURSIVE Insert(_, _)
Insert(x, s) ==
    IF s = << >> THEN << x >>
    ELSE IF StrLess(s[1], x) THEN << s[1] >> \o Insert(x, Tail(s))
    ELSE << x >> \o s

RECURSIVE SortStrings(_)
SortStrings(s) ==
    IF s = << >> THEN << >> ELSE Insert(s[1], SortStrings(Tail(s)))

SortAddressesUnsorted(a) == a

SortAddresses(a) == [nil |-> a.nil, elems |-> SortStrings(a.elems)]


\* ---------------------------------------------- decisions of the watcher loop
\* opts.WaitIndex < lastWaitIndex
RegressedIgnored(new, last) == FALSE

Regressed(new, last) == new < last

\* lastWaitIndex == opts.WaitIndex && time.Since(queryStartTime) < 50ms
TooFastReversed(last, new, elapsed) == last = new /\ elapsed > FastResponseMs

TooFast(last, new, elapsed) == last = new /\ elapsed < FastResponseMs

ReportErrorCall == [fn |-> "ReportError", addrs |-> NilSlice, err |-> FALSE]
UpdateStateCall(a, err) == [fn |-> "UpdateState", addrs |-> a, err |-> err]

\* if err != nil: return on context.Canceled, else ReportError and break
OnQueryErrorAutoRetry(canceled) ==
    IF canceled THEN [pc |-> "stopped", calls |-> << >>]
    ELSE [pc |-> "loop", calls |-> << ReportErrorCall >>]

OnQueryErrorNoCancelCheck(canceled) ==
    [pc |-> "select", calls |-> << ReportErrorCall >>]

OnQueryError(canceled) ==
    IF canceled THEN [pc |-> "stopped", calls |-> << >>]
    ELSE [pc |-> "select", calls |-> << ReportErrorCall >>]

\* the inner loop body after a successful query, up to its next blocking call
OnQuerySuccess(last, lastRep, res, idx, elapsed) ==
    IF Regressed(idx, last)
    THEN [pc |-> "loop", WaitIndex |-> 0, addresses |-> NilSlice]
    ELSE LET sorted == SortAddresses(res)
         IN IF addressesEqual(sorted, lastRep)
            THEN IF TooFast(last, idx, elapsed)
                 THEN [pc |-> "sleep", WaitIndex |-> idx, addresses |-> NilSlice]
                 ELSE [pc |-> "loop", WaitIndex |-> idx, addresses |-> NilSlice]
            ELSE [pc |-> "update", WaitIndex |-> idx, addresses |-> sorted]

\* err = c.clientConn.UpdateState(...); the error is at most logged;
\* lastReportedAddresses = addresses; next iteration of the inner loop
OnUpdateStateKeepSnapshot(addrs, err, lastRep) ==
    [pc |-> "loop",
     calls |-> << UpdateStateCall(addrs, err) >>,
     lastReportedAddresses |-> IF err THEN lastRep ELSE addrs]

OnUpdateState(addrs, err, lastRep) ==
    [pc |-> "loop",
     calls |-> << UpdateStateCall(addrs, err) >>,
     lastReportedAddresses |-> addrs]

\* the case the select of ResolveNow() takes: the send when the channel has
\* room, else the default case; without a default case it would block
ResolveNowCaseNoDefault(ch) == IF ch < ResolveNowCap THEN "send" ELSE "block"

ResolveNowCase(ch) == IF ch < ResolveNowCap THEN "send" ELSE "default"

\* select { case c.resolveNow <- struct{}{}: default: }
ResolveNowSendUnbounded(ch) == ch + 1

ResolveNowSendDropped(ch) == ch

ResolveNowSend(ch) == IF ch < ResolveNowCap THEN ch + 1 ELSE ch

\* defer c.wgStop.Done()
WgDoneMissing(wg) == wg

WgDone(wg) == wg - 1

\* c.wgStop.Wait() returns when the counter is zero
WaitReturnsNoJoin(wg) == TRUE

WaitReturns(wg) == wg = 0

\* ------------------------------------------------------------------- state
VARIABLES
    healthFilter,           \* c.healthFilter
    cancelled,              \* c.ctx is done
    wgStop,                 \* counter of c.wgStop
    resolveNow,             \* number of elements buffered in c.resolveNow
    pc,                     \* position of the watcher goroutine
    lastReportedAddresses,  \* watcher local
    WaitIndex,              \* opts.WaitIndex
    lastWaitIndex,          \* watcher local, live while the query is in flight
    addresses,              \* watcher local, the list about to be reported
    queryCtxDone,           \* whether ctx was done when the query was issued
    closePc,                \* position of each Close() caller
    \* observations
    calls,                  \* the ClientConn calls made by the last step
    nUpdate,                \* UpdateState calls so far: 0, 1, 2 = more than one
    okHist,                 \* entries of the successful queries so far
    resp,                   \* outcome of the latest query, until followed up
    sleptMs,                \* time slept since the latest query returned
    rnCalls,                \* ResolveNow() calls since the last consumed
                            \* trigger: 0, 1, 2 = more than one
    consumedCalls,          \* ResolveNow() calls behind the last consumed
                            \* trigger, counted likewise
    nClosed,                \* Close() calls that returned: 0, 1, 2 = more
    stage,                  \* scenario: state of the service in the catalog,
                            \* 0 = no scenario
    reports,                \* scenario: the lists passed to UpdateState
    okCursor,               \* cursor the latest successful query left:
                            \* its LastIndex, 0 if it regressed
    cancelInSleep,          \* whether the first cancel() came in time.Sleep
    got,                    \* what the latest successful query resolved to
    rejected,               \* the list the latest UpdateState refused, if any
    rnInLoop,               \* the trigger pending or last consumed was sent
                            \* during the inner loop
    errSnap,                \* the snapshot held when a query failed, until
                            \* the query after a successful one is issued
    rnLate,                 \* ResolveNow() was called after a Close() returned
    \* the pure functions applied to drawn arguments
    fnPc,                   \* "off", or how far the application has come
    fnEntries,              \* the entries ServiceMultipleTags returned
    fnFiltered,             \* filterPreferOnlyHealthy(fnEntries)
    fnResult,               \* query()'s address list for fnEntries
    fnA,                    \* first argument of addressesEqual
    fnB,                    \* second argument of addressesEqual
    fnEqual                 \* addressesEqual(fnA, fnB)

vars == << healthFilter, cancelled, wgStop, resolveNow, pc, lastReportedAddresses,
           WaitIndex, lastWaitIndex, addresses, queryCtxDone, closePc,
           calls, nUpdate, okHist, resp, sleptMs, rnCalls, consumedCalls,
           nClosed, stage, reports, okCursor, cancelInSleep, got, rejected,
           rnInLoop, errSnap, rnLate, fnPc, fnEntries, fnFiltered, fnResult,
           fnA, fnB, fnEqual >>

Closers == 1..NumClosers
Sat(n) == IF n < 2 THEN n + 1 ELSE 2

\* s and t hold the same strings the same number of times
Count(x, s) == Cardinality({i \in 1..Len(s) : s[i] = x})
SameBag(s, t) ==
    /\ Len(s) = Len(t)
    /\ \A i \in 1..Len(s) : Count(s[i], s) = Count(s[i], t)

\* got.res is the address list query() returned, in the backend's order;
\* got.same tells whether it holds the addresses of the snapshot held then.
NoGot == [res |-> NilSlice, same |-> FALSE]

\* state after newConsulResolver()
Init ==
    /\ healthFilter \in {healthFilterOnlyHealthy, healthFilterFallbackToUnhealthy}
    /\ cancelled = FALSE
    /\ wgStop = 0
    /\ resolveNow = 0
    /\ pc = "init"
    /\ lastReportedAddresses = NilSlice
    /\ WaitIndex = 0
    /\ lastWaitIndex = 0
    /\ addresses = NilSlice
    /\ queryCtxDone = FALSE
    /\ closePc = [c \in Closers |-> "idle"]
    /\ calls = << >>
    /\ nUpdate = 0
    /\ okHist = "none"
    /\ resp = "none"
    /\ sleptMs = 0
    /\ rnCalls = 0
    /\ consumedCalls = 0
    /\ nClosed = 0
    /\ stage = 0
    /\ reports = << >>
    /\ okCursor = 0
    /\ cancelInSleep = FALSE
    /\ got = NoGot
    /\ rejected = << >>
    /\ rnInLoop = FALSE
    /\ errSnap = << >>
    /\ rnLate = FALSE
    /\ fnPc = "off"
    /\ fnEntries = << >>
    /\ fnFiltered = << >>
    /\ fnResult = NilSlice
    /\ fnA = NilSlice
    /\ fnB = NilSlice
    /\ fnEqual = FALSE

watcherVars == << pc, lastReportedAddresses, WaitIndex, lastWaitIndex, addresses,
                  queryCtxDone >>
watcherObs == << nUpdate, okHist, resp, sleptMs >>
triggerObs == << rnCalls, consumedCalls >>
fnVars == << fnPc, fnEntries, fnFiltered, fnResult, fnA, fnB, fnEqual >>

\* lastReportedAddresses is declared outside both loops: the break out of
\* the inner loop and the select leave it as it is
SnapshotAfterBreakReset(lastRep) == NilSlice

SnapshotAfterBreak(lastRep) == lastRep

\* the watcher is inside its inner for loop
InnerLoop == {"loop", "query", "update", "sleep"}

\* return from watcher(): the deferred c.wgStop.Done() runs and the locals
\* (lastReportedAddresses, opts, addresses) cease to exist.
WatcherReturn ==
    /\ pc' = "stopped"
    /\ wgStop' = WgDone(wgStop)
    /\ lastReportedAddresses' = NilSlice
    /\ WaitIndex' = 0
    /\ lastWaitIndex' = 0
    /\ addresses' = NilSlice
    /\ rejected' = << >>
    /\ rnInLoop' = FALSE
    /\ errSnap' = << >>

\* start(): wgStop.Add(1); go c.watcher()
start ==
    /\ pc = "init"
    /\ pc' = "loop"
    /\ wgStop' = wgStop + 1
    /\ calls' = << >>
    /\ UNCHANGED << healthFilter, cancelled, resolveNow, lastReportedAddresses,
                    WaitIndex, lastWaitIndex, addresses, queryCtxDone, closePc,
                    watcherObs, triggerObs, nClosed >>
    /\ UNCHANGED << fnVars, stage, reports, okCursor, cancelInSleep, got,
                    rejected, rnInLoop, errSnap, rnLate >>

\* top of the inner loop: lastWaitIndex := opts.WaitIndex; c.query(opts) is
\* entered and blocks in ServiceMultipleTags.
IssueQuery ==
    /\ pc = "loop"
    /\ pc' = "query"
    /\ lastWaitIndex' = WaitIndex
    /\ queryCtxDone' = cancelled
    /\ resp' = "none"
    /\ got' = NoGot
    /\ rnInLoop' = (resolveNow > 0 /\ rnInLoop)
    /\ errSnap' = IF resp \in {"ok", "dupFast", "regressed"} THEN << >> ELSE errSnap
    /\ sleptMs' = 0
    /\ calls' = << >>
    /\ UNCHANGED << healthFilter, cancelled, wgStop, resolveNow,
                    lastReportedAddresses, WaitIndex, addresses, closePc,
                    nUpdate, okHist, triggerObs, nClosed >>
    /\ UNCHANGED << fnVars, stage, reports, okCursor, cancelInSleep,
                    rejected, rnLate >>

\* ServiceMultipleTags returns entries and meta.LastIndex = idx after
\* elapsed ms. A query issued with a done context does not succeed.
QueryOK(entries, idx, elapsed) ==
    /\ pc = "query"
    /\ ~queryCtxDone
    /\ LET res == query(healthFilter, entries)
           r == OnQuerySuccess(lastWaitIndex, lastReportedAddresses, res, idx, elapsed)
       IN /\ pc' = r.pc
          /\ WaitIndex' = r.WaitIndex
          /\ addresses' = r.addresses
          /\ resp' = IF idx < lastWaitIndex THEN "regressed"
                     ELSE IF /\ ~lastReportedAddresses.nil
                             /\ SameBag(res.elems, lastReportedAddresses.elems)
                             /\ idx = lastWaitIndex
                             /\ elapsed < FastResponseMs
                          THEN "dupFast"
                          ELSE "ok"
    /\ lastWaitIndex' = 0
    /\ got' = [res |-> query(healthFilter, entries),
                same |-> /\ ~lastReportedAddresses.nil
                         /\ SameBag(query(healthFilter, entries).elems,
                                    lastReportedAddresses.elems)]
    /\ okCursor' = IF idx < lastWaitIndex THEN 0 ELSE idx
    /\ okHist' = IF entries # << >> THEN "some"
                 ELSE IF okHist = "none" THEN "zero" ELSE okHist
    /\ calls' = << >>
    /\ UNCHANGED << healthFilter, cancelled, wgStop, resolveNow,
                    lastReportedAddresses, queryCtxDone, closePc,
                    nUpdate, sleptMs, triggerObs, nClosed >>
    /\ UNCHANGED << fnVars, stage, reports, cancelInSleep, rejected,
                    rnInLoop, errSnap, rnLate >>

\* ServiceMultipleTags returns an error: query() returns nil, 0, err, which
\* the watcher assigns to addresses, opts.WaitIndex, err. context.Canceled
\* is returned only when c.ctx is done, and is the only outcome when the
\* query was issued with a done context.
QueryError(canceled) ==
    /\ pc = "query"
    /\ IF canceled THEN cancelled ELSE ~queryCtxDone
    /\ LET r == OnQueryError(canceled)
       IN /\ calls' = r.calls
          /\ IF r.pc = "stopped"
             THEN WatcherReturn
             ELSE /\ pc' = r.pc
                  /\ WaitIndex' = 0
                  /\ lastWaitIndex' = 0
                  /\ lastReportedAddresses' =
                        SnapshotAfterBreak(lastReportedAddresses)
                  /\ errSnap' = << lastReportedAddresses >>
                  /\ UNCHANGED << wgStop, addresses, rejected, rnInLoop >>
    /\ resp' = IF canceled THEN "canceled" ELSE "error"
    /\ got' = NoGot
    /\ UNCHANGED << healthFilter, cancelled, resolveNow, queryCtxDone, closePc,
                    nUpdate, okHist, sleptMs, triggerObs, nClosed >>
    /\ UNCHANGED << fnVars, stage, reports, okCursor, cancelInSleep, rnLate >>

\* c.clientConn.UpdateState(...) returns err, which is at most logged;
\* lastReportedAddresses = addresses
UpdateState(err) ==
    /\ pc = "update"
    /\ LET r == OnUpdateState(addresses, err, lastReportedAddresses)
       IN /\ calls' = r.calls
          /\ lastReportedAddresses' = r.lastReportedAddresses
          /\ pc' = r.pc
    /\ addresses' = NilSlice
    /\ rejected' = IF err THEN << addresses >> ELSE << >>
    /\ nUpdate' = Sat(nUpdate)
    /\ reports' = IF stage > 0 THEN Append(reports, addresses) ELSE reports
    /\ UNCHANGED << healthFilter, cancelled, wgStop, resolveNow, WaitIndex,
                    lastWaitIndex, queryCtxDone, closePc, okHist, resp, sleptMs,
                    triggerObs, nClosed >>
    /\ UNCHANGED << fnVars, stage, okCursor, cancelInSleep, got, rnInLoop,
                    errSnap, rnLate >>

\* time.Sleep(50 * time.Millisecond) returns; continue
SleepDone ==
    /\ pc = "sleep"
    /\ pc' = "loop"
    /\ sleptMs' = SleepMs
    /\ calls' = << >>
    /\ UNCHANGED << healthFilter, cancelled, wgStop, resolveNow,
                    lastReportedAddresses, WaitIndex, lastWaitIndex, addresses,
                    queryCtxDone, closePc, nUpdate, okHist, resp, triggerObs,
                    nClosed >>
    /\ UNCHANGED << fnVars, stage, reports, okCursor, cancelInSleep, got,
                    rejected, rnInLoop, errSnap, rnLate >>

\* select: case <-c.ctx.Done(): return
SelectDone ==
    /\ pc = "select"
    /\ cancelled
    /\ WatcherReturn
    /\ calls' = << >>
    /\ UNCHANGED << healthFilter, cancelled, resolveNow, queryCtxDone, closePc,
                    watcherObs, triggerObs, nClosed >>
    /\ UNCHANGED << fnVars, stage, reports, okCursor, cancelInSleep, got,
                    rnLate >>

\* select: case <-c.resolveNow: back to the inner loop. With both cases
\* ready Go picks either, so this is enabled whether or not ctx is done.
SelectResolveNow ==
    /\ pc = "select"
    /\ resolveNow > 0
    /\ resolveNow' = resolveNow - 1
    /\ pc' = "loop"
    /\ resp' = "none"
    /\ consumedCalls' = rnCalls
    /\ rnCalls' = 0
    /\ calls' = << >>
    /\ UNCHANGED << healthFilter, cancelled, wgStop, lastReportedAddresses,
                    WaitIndex, lastWaitIndex, addresses, queryCtxDone, closePc,
                    nUpdate, okHist, sleptMs, nClosed >>
    /\ UNCHANGED << fnVars, stage, reports, okCursor, cancelInSleep, got,
                    rejected, rnInLoop, errSnap, rnLate >>

\* ResolveNow(): non-blocking send. It needs only the channel made by
\* newConsulResolver(), so it is callable in every state.
ResolveNow ==
    /\ ResolveNowCase(resolveNow) # "block"
    /\ resolveNow' = ResolveNowSend(resolveNow)
    /\ rnLate' = (rnLate \/ nClosed > 0)
    /\ rnCalls' = Sat(rnCalls)
    /\ rnInLoop' = IF resolveNow < ResolveNowCap THEN pc \in InnerLoop ELSE rnInLoop
    /\ calls' = << >>
    /\ UNCHANGED << healthFilter, cancelled, wgStop, closePc, watcherVars,
                    watcherObs, consumedCalls, nClosed >>
    /\ UNCHANGED << fnVars, stage, reports, okCursor, cancelInSleep, got,
                    rejected, errSnap >>

\* Close(), first statement: c.cancel(). Build() returns the resolver only
\* after start(), so Close() is called on a started resolver.
CloseCancel(c) ==
    /\ pc # "init"
    /\ closePc[c] = "idle"
    /\ closePc' = [closePc EXCEPT ![c] = "wait"]
    /\ cancelled' = TRUE
    /\ cancelInSleep' = IF cancelled THEN cancelInSleep ELSE pc = "sleep"
    /\ calls' = << >>
    /\ UNCHANGED << healthFilter, wgStop, resolveNow, watcherVars, watcherObs,
                    triggerObs, nClosed >>
    /\ UNCHANGED << fnVars, stage, reports, okCursor, got, rejected,
                    rnInLoop, errSnap, rnLate >>

\* Close(), second statement: c.wgStop.Wait() returns, and Close() with it.
CloseReturn(c) ==
    /\ closePc[c] = "wait"
    /\ WaitReturns(wgStop)
    /\ closePc' = [closePc EXCEPT ![c] = "idle"]
    /\ nClosed' = Sat(nClosed)
    /\ calls' = << >>
    /\ UNCHANGED << healthFilter, cancelled, wgStop, resolveNow, watcherVars,
                    watcherObs, triggerObs >>
    /\ UNCHANGED << fnVars, stage, reports, okCursor, cancelInSleep, got,
                    rejected, rnInLoop, errSnap, rnLate >>

\* the steps of the watcher goroutine, the backend answering from R
WatcherOn(R) ==
    \/ IssueQuery
    \/ \E entries \in R, idx \in Cursors, elapsed \in Elapsed :
          QueryOK(entries, idx, elapsed)
    \/ \E canceled \in BOOLEAN : QueryError(canceled)
    \/ \E err \in BOOLEAN : UpdateState(err)
    \/ SleepDone
    \/ SelectDone
    \/ SelectResolveNow

Watcher == WatcherOn(Responses)

Next ==
    \/ start
    \/ Watcher
    \/ ResolveNow
    \/ \E c \in Closers : CloseCancel(c)
    \/ \E c \in Closers : CloseReturn(c)

Spec == Init /\ [][Next]_vars

\* The same program under fair scheduling, for the claims about what
\* eventually happens; they do not depend on how many instances the backend
\* knows, so it answers with at most one entry. The goroutines are scheduled
\* and blocking calls return: a blocked query returns (the backend's bounded
\* wait, or the done context), time.Sleep and UpdateState return, and a
\* Close() whose Wait() can return does return.
ShortResponses == {r \in Responses : Len(r) <= 1}

WatcherFair == WatcherOn(ShortResponses)

NextFair ==
    \/ start
    \/ WatcherFair
    \/ ResolveNow
    \/ \E c \in Closers : CloseCancel(c)
    \/ \E c \in Closers : CloseReturn(c)

FairSpec ==
    /\ Init
    /\ [][NextFair]_vars
    /\ WF_vars(start)
    /\ WF_vars(WatcherFair)
    /\ \A c \in Closers : WF_vars(CloseReturn(c))

\* the address lists of up to MaxEntries addresses, and the nil slice
Addresses == {EntryAddr(e) : e \in ServiceEntry}
Slices == {NilSlice} \cup {MkSlice(l) : l \in SeqsUpTo(Addresses, MaxEntries)}

\* The pure functions on their own: the resolver is as constructed, the
\* backend's answer is drawn from Responses, then filterPreferOnlyHealthy
\* and query() are applied to it, and addressesEqual to two drawn slices.
resolverVars == << healthFilter, cancelled, wgStop, resolveNow, pc,
                   lastReportedAddresses, WaitIndex, lastWaitIndex, addresses,
                   queryCtxDone, closePc, calls, nUpdate, okHist, resp, sleptMs,
                   rnCalls, consumedCalls, nClosed, stage, reports, okCursor,
                   cancelInSleep, got, rejected, rnInLoop, errSnap, rnLate >>

FnInit ==
    /\ healthFilter \in {healthFilterOnlyHealthy, healthFilterFallbackToUnhealthy}
    /\ cancelled = FALSE
    /\ wgStop = 0
    /\ resolveNow = 0
    /\ pc = "init"
    /\ lastReportedAddresses = NilSlice
    /\ WaitIndex = 0
    /\ lastWaitIndex = 0
    /\ addresses = NilSlice
    /\ queryCtxDone = FALSE
    /\ closePc = [c \in Closers |-> "idle"]
    /\ calls = << >>
    /\ nUpdate = 0
    /\ okHist = "none"
    /\ resp = "none"
    /\ sleptMs = 0
    /\ rnCalls = 0
    /\ consumedCalls = 0
    /\ nClosed = 0
    /\ stage = 0
    /\ reports = << >>
    /\ okCursor = 0
    /\ cancelInSleep = FALSE
    /\ got = NoGot
    /\ rejected = << >>
    /\ rnInLoop = FALSE
    /\ errSnap = << >>
    /\ rnLate = FALSE
    /\ fnPc = "drawn"
    /\ fnEntries \in Responses
    /\ fnFiltered = << >>
    /\ fnResult = NilSlice
    /\ fnA \in Slices
    /\ fnB \in Slices
    /\ fnEqual = FALSE

FnFilter ==
    /\ stage = 0
    /\ reports = << >>
    /\ okCursor = 0
    /\ cancelInSleep = FALSE
    /\ got = NoGot
    /\ rejected = << >>
    /\ rnInLoop = FALSE
    /\ errSnap = << >>
    /\ rnLate = FALSE
    /\ fnPc = "drawn"
    /\ fnFiltered' = filterPreferOnlyHealthy(fnEntries)
    /\ fnPc' = "filtered"
    /\ UNCHANGED << fnEntries, fnResult, fnA, fnB, fnEqual, resolverVars >>

FnQuery ==
    /\ fnPc = "filtered"
    /\ fnResult' = query(healthFilter, fnEntries)
    /\ fnPc' = "queried"
    /\ UNCHANGED << fnEntries, fnFiltered, fnA, fnB, fnEqual, resolverVars >>

FnEqual ==
    /\ fnPc = "queried"
    /\ fnEqual' = addressesEqual(fnA, fnB)
    /\ fnPc' = "compared"
    /\ UNCHANGED << fnEntries, fnFiltered, fnResult, fnA, fnB, resolverVars >>

FnNext ==
    \/ FnFilter
    \/ FnQuery
    \/ FnEqual

FnSpec == FnInit /\ [][FnNext]_vars

\* The scenario of the README's fallback mode, played by the backend:
\* instance A ("a:10") and instance B ("a:9") of one service. Stage 1: A
\* passing, B failing; stage 2: both failing; stage 3: service removed. Each
\* successful query returns the instances of the current stage in either
\* order; the service changes once its current state has been reported.
InstanceA(status) == [svc |-> StrA, node |-> StrA, port |-> 10, status |-> status]
InstanceB(status) == [svc |-> StrEmpty, node |-> StrA, port |-> 9, status |-> status]
LastStage == 3

Catalog(st) ==
    IF st = 1 THEN {InstanceA(HealthPassing), InstanceB(HealthCritical)}
    ELSE IF st = 2 THEN {InstanceA(HealthCritical), InstanceB(HealthCritical)}
    ELSE {}

\* every order in which the backend may list the instances of stage st
CatalogResponses(st) ==
    {r \in Responses :
        /\ Len(r) = Cardinality(Catalog(st))
        /\ {r[i] : i \in 1..Len(r)} = Catalog(st)}

ScenarioInit ==
    /\ healthFilter = healthFilterFallbackToUnhealthy
    /\ cancelled = FALSE
    /\ wgStop = 0
    /\ resolveNow = 0
    /\ pc = "init"
    /\ lastReportedAddresses = NilSlice
    /\ WaitIndex = 0
    /\ lastWaitIndex = 0
    /\ addresses = NilSlice
    /\ queryCtxDone = FALSE
    /\ closePc = [c \in Closers |-> "idle"]
    /\ calls = << >>
    /\ nUpdate = 0
    /\ okHist = "none"
    /\ resp = "none"
    /\ sleptMs = 0
    /\ rnCalls = 0
    /\ consumedCalls = 0
    /\ nClosed = 0
    /\ stage = 1
    /\ reports = << >>
    /\ okCursor = 0
    /\ cancelInSleep = FALSE
    /\ got = NoGot
    /\ rejected = << >>
    /\ rnInLoop = FALSE
    /\ errSnap = << >>
    /\ rnLate = FALSE
    /\ fnPc = "off"
    /\ fnEntries = << >>
    /\ fnFiltered = << >>
    /\ fnResult = NilSlice
    /\ fnA = NilSlice
    /\ fnB = NilSlice
    /\ fnEqual = FALSE

\* the service changes in the catalog
CatalogChange ==
    /\ stage < LastStage
    /\ Len(reports) = stage
    /\ stage' = stage + 1
    /\ calls' = << >>
    /\ UNCHANGED << healthFilter, cancelled, wgStop, resolveNow, closePc,
                    watcherVars, watcherObs, triggerObs, nClosed, reports >>
    /\ UNCHANGED << fnVars, okCursor, cancelInSleep, got, rejected, rnInLoop,
                    errSnap, rnLate >>

ScenarioWatcher ==
    \/ IssueQuery
    \/ \E entries \in CatalogResponses(stage), idx \in Cursors, elapsed \in Elapsed :
          QueryOK(entries, idx, elapsed)
    \/ QueryError(FALSE)
    \/ \E err \in BOOLEAN : UpdateState(err)
    \/ SleepDone
    \/ SelectResolveNow

ScenarioNext ==
    \/ start
    \/ ScenarioWatcher
    \/ ResolveNow
    \/ CatalogChange

ScenarioSpec == ScenarioInit /\ [][ScenarioNext]_vars

\* ------------------------------------------------------------------ claims
EmptyList == MkSlice(<< >>)

\* C1: when the first successful query returns zero entries, UpdateState is
\* called with an empty non-nil list, and while every successful query
\* returns zero entries that call is the only UpdateState: once the query
\* has been followed up there is exactly one report.
C1_FirstReportEmpty ==
    /\ [](okHist = "zero" =>
            IF pc = "update"
            THEN nUpdate = 0 /\ addresses = EmptyList
            ELSE nUpdate = 1)
    /\ [][okHist' = "zero" =>
            \A i \in 1..Len(calls') :
                calls'[i].fn = "UpdateState" =>
                    calls'[i].addrs = EmptyList /\ nUpdate = 0]_vars
    /\ (okHist = "zero" ~> nUpdate = 1)

\* a second zero-entry query returned after the empty list was reported
C1_Witness == okHist = "zero" /\ nUpdate = 1 /\ resp = "dupFast"

\* C2: once a Close() call has returned the watcher goroutine has exited,
\* and no later step issues a query or calls UpdateState or ReportError.
C2_CloseJoins ==
    /\ [](nClosed > 0 => pc = "stopped" /\ wgStop = 0)
    /\ [][nClosed > 0 => calls' = << >> /\ pc' = "stopped"]_vars

\* Close() returned after its cancel() arrived while a query was in flight
C2_Witness == nClosed > 0 /\ resp = "canceled" /\ ~queryCtxDone

\* C3: Close() may be called repeatedly and concurrently: the WaitGroup
\* counter never goes negative (the panic of sync.WaitGroup), every call
\* that has cancelled eventually returns, and once one call has returned no
\* step, a further Close() included, reports anything.
C3_CloseIdempotent ==
    /\ [](wgStop >= 0)
    /\ \A c \in Closers : (closePc[c] = "wait" ~> closePc[c] = "idle")
    /\ [][nClosed > 0 => calls' = << >>]_vars

\* two Close() calls have returned
C3_Witness == nClosed = 2 /\ pc = "stopped"

\* C4: at most one trigger is pending, it is pending exactly when ResolveNow()
\* was called since the last consumption, and a restart of the inner loop
\* consumes it whole, however many calls are behind it.
C4_Coalesced ==
    /\ [](resolveNow <= 1 /\ (rnCalls = 0 <=> resolveNow = 0))
    /\ [][pc = "select" /\ pc' = "loop" =>
            resolveNow = 1 /\ resolveNow' = 0 /\ rnCalls >= 1]_vars

\* several calls were consumed by one restart and nothing is left pending
C4_Witness == consumedCalls = 2 /\ resolveNow = 0 /\ pc = "query"

\* C5: a successful query that returns a cursor smaller than the one it was
\* issued with makes no ClientConn call and leaves the snapshot alone; the
\* watcher is then at the top of the inner loop with cursor 0, has not
\* slept, and its next step issues the next query with cursor 0.
C5_CursorRegression ==
    /\ [](resp = "regressed" => pc = "loop" /\ WaitIndex = 0 /\ sleptMs = 0)
    /\ [][resp' = "regressed" =>
            calls' = << >> /\ lastReportedAddresses' = lastReportedAddresses]_vars
    /\ [][resp = "regressed" /\ pc' # pc =>
            pc' = "query" /\ lastWaitIndex' = 0]_vars

\* a regressed response arrived while a snapshot was held
C5_Witness == resp = "regressed" /\ ~lastReportedAddresses.nil /\ pc = "loop"

\* C6: after a successful query that returned the snapshot's addresses and
\* the cursor it was issued with in under 50ms, the watcher is in the sleep
\* or has slept the full 50ms, and it has slept when it issues the next query.
C6_NoBusyLoop ==
    /\ [](resp = "dupFast" =>
            pc = "sleep" \/ (pc = "loop" /\ sleptMs >= SleepMs))
    /\ [][resp = "dupFast" /\ pc' = "query" => sleptMs >= SleepMs]_vars

\* the sleep after a too-fast duplicate response has elapsed
C6_Witness == resp = "dupFast" /\ pc = "loop" /\ sleptMs = SleepMs

IsPassing(e) == e.status = HealthPassing
AddressesOf(es) == MkSlice([i \in 1..Len(es) |-> EntryAddr(es[i])])

\* C7: the fallback filter returns the passing entries, each as often as the
\* input holds it, when there is one, and the whole input otherwise (the
\* empty input included); query() in FallbackToUnhealthy mode resolves the
\* filter's output and in OnlyHealthy mode every entry the backend returned.
C7_HealthFallback ==
    /\ fnPc \in {"filtered", "queried", "compared"} =>
          IF \E i \in 1..Len(fnEntries) : IsPassing(fnEntries[i])
          THEN /\ \A j \in 1..Len(fnFiltered) : IsPassing(fnFiltered[j])
               /\ \A i \in 1..Len(fnEntries) :
                     IsPassing(fnEntries[i]) =>
                        Count(fnEntries[i], fnFiltered) = Count(fnEntries[i], fnEntries)
               /\ Len(fnFiltered) =
                     Cardinality({i \in 1..Len(fnEntries) : IsPassing(fnEntries[i])})
          ELSE fnFiltered = fnEntries
    /\ fnPc \in {"queried", "compared"} =>
          IF healthFilter = healthFilterFallbackToUnhealthy
          THEN fnResult = AddressesOf(fnFiltered)
          ELSE fnResult = AddressesOf(fnEntries)

\* the filter dropped a failing entry next to a passing one
C7_Witness ==
    /\ fnPc = "queried"
    /\ healthFilter = healthFilterFallbackToUnhealthy
    /\ Len(fnEntries) = 2
    /\ Len(fnFiltered) = 1

SortedBy(s, strict) ==
    \A i \in 1..(Len(s) - 1) :
        StrLess(s[i], s[i + 1]) \/ (~strict /\ s[i] = s[i + 1])

ListsHeld(strict) ==
    /\ SortedBy(lastReportedAddresses.elems, strict)
    /\ \A i \in 1..Len(calls) :
          calls[i].fn = "UpdateState" => SortedBy(calls[i].addrs.elems, strict)

\* C8 as claimed: every list passed to UpdateState and every snapshot held
\* is sorted by address and holds no address twice.
C8_SortedNoDuplicates == ListsHeld(TRUE)

\* C8 as amended: every list passed to UpdateState and every snapshot held
\* is sorted by address in non-decreasing order; an address that two entries
\* map to is kept twice.
C8_Sorted == ListsHeld(FALSE)

\* a list holding the same address twice was reported and is the snapshot
C8_Witness ==
    /\ Len(lastReportedAddresses.elems) = 2
    /\ lastReportedAddresses.elems[1] = lastReportedAddresses.elems[2]
    /\ calls = << UpdateStateCall(lastReportedAddresses, FALSE) >>

\* C9: a step calls ReportError exactly when it is the return of a query
\* with a non-cancellation error, and then once and nothing else; after it
\* the watcher waits in the select, which it leaves only by consuming a
\* trigger (back to the inner loop) or, with the context done, by stopping.
C9_ReportErrorOnce ==
    /\ [][(pc = "query" /\ resp' = "error") <=>
             (\E i \in 1..Len(calls') : calls'[i].fn = "ReportError")]_vars
    /\ [][pc = "query" /\ resp' = "error" => calls' = << ReportErrorCall >>]_vars
    /\ [](resp = "error" => pc \in {"select", "stopped"})
    /\ [][resp = "error" /\ pc = "select" /\ pc' # "select" =>
             \/ pc' = "loop" /\ resolveNow > 0 /\ resolveNow' = resolveNow - 1
             \/ pc' = "stopped" /\ cancelled]_vars

\* the watcher waits for a trigger after reporting a failed query
C9_Witness == resp = "error" /\ pc = "select" /\ calls = << ReportErrorCall >>

\* C10: the return of a query with the cancellation error takes the watcher
\* to stopped without a ClientConn call, and a stopped watcher stays stopped
\* and makes no call.
C10_CancelStops ==
    /\ [][pc = "query" /\ resp' = "canceled" =>
             pc' = "stopped" /\ calls' = << >>]_vars
    /\ [][pc = "stopped" => pc' = "stopped" /\ calls' = << >>]_vars

\* a query returned the cancellation error
C10_Witness == resp = "canceled" /\ pc = "stopped" /\ wgStop = 0

\* the reports of the scenario: [A], then [A, B] sorted, then the empty list
AddrA == EntryAddr(InstanceA(HealthPassing))
AddrB == EntryAddr(InstanceB(HealthPassing))
ScenarioReports == << MkSlice(<< AddrA >>), MkSlice(<< AddrA, AddrB >>), EmptyList >>

\* C11: in the scenario the lists passed to UpdateState are, in this order
\* and with nothing in between, [A], [A, B] and the empty non-nil list: at
\* every moment the reports made are the first ones of that sequence, and
\* there is one report for each state of the service the watcher has seen.
C11_Scenario ==
    /\ Len(reports) <= stage
    /\ Len(reports) >= stage - 1
    /\ reports = SubSeq(ScenarioReports, 1, Len(reports))
    /\ StrLess(AddrA, AddrB)

\* all three reports were made
C11_Witness == stage = LastStage /\ reports = ScenarioReports

SameContents(a, b) ==
    /\ Len(a.elems) = Len(b.elems)
    /\ \A i \in 1..Len(a.elems) : a.elems[i] = b.elems[i]

\* C12 as claimed: addressesEqual(a, b) is true exactly when a and b have
\* the same length and equal addresses at every position, nil and empty
\* lists included.
C12_EqualIffSameContents ==
    fnPc = "compared" => (fnEqual <=> SameContents(fnA, fnB))

\* C12 as amended: addressesEqual(a, b) is true exactly when a and b are
\* both nil or both non-nil, have the same length and equal addresses at
\* every position; a nil list and an empty non-nil list are not equal.
C12_EqualIffSameNilAndContents ==
    fnPc = "compared" =>
        (fnEqual <=> (fnA.nil = fnB.nil /\ SameContents(fnA, fnB)))

\* a nil list was compared with an empty non-nil list and found different
C12_Witness ==
    fnPc = "compared" /\ fnA = NilSlice /\ fnB = EmptyList /\ ~fnEqual

\* C13: every query in flight was issued with the cursor the latest
\* successful query left (its LastIndex, or 0 after a regression or before
\* any success), also when failed queries and a retry lie in between.
C13_CursorPersists == pc = "query" => lastWaitIndex = okCursor

\* C14: when the first cancel() arrives while the watcher is in the
\* anti-busy-loop sleep, the watcher leaves the sleep only to stop.
C14_SleepInterruptible ==
    [][cancelInSleep /\ pc = "sleep" /\ pc' # "sleep" => pc' = "stopped"]_vars

IsUpdateState(c) == c.fn = "UpdateState"

\* C15: the return of a query leads to an UpdateState exactly when the query
\* succeeded, did not regress, and resolved to other addresses than the
\* snapshot holds; UpdateState is called only then, as the watcher's next
\* step (so before the next query), with that query's addresses in sorted
\* order, and never with the list of the previous UpdateState.
C15_ReportOnChange ==
    /\ [][pc = "query" /\ pc' # "query" =>
            ((pc' = "update") <=> (resp' = "ok" /\ ~got'.same))]_vars
    /\ [][pc = "update" /\ pc' # "update" =>
            /\ Len(calls') = 1
            /\ IsUpdateState(calls'[1])
            /\ ~calls'[1].addrs.nil
            /\ SameBag(calls'[1].addrs.elems, got.res.elems)
            /\ SortedBy(calls'[1].addrs.elems, FALSE)]_vars
    /\ [][\A i \in 1..Len(calls') :
            IsUpdateState(calls'[i]) =>
               /\ pc = "update"
               /\ lastReportedAddresses.nil
                    \/ calls'[i].addrs.elems # lastReportedAddresses.elems]_vars

\* a second, different list was reported
C15_Witness ==
    /\ nUpdate = 2
    /\ Len(calls) = 1
    /\ IsUpdateState(calls[1])
    /\ got.res.elems # << >>

\* C16: when UpdateState returns an error the watcher makes no other call
\* (no ReportError), does not stop, holds the refused list as its snapshot
\* and goes on to the next query; a later query resolving to the refused
\* addresses does not lead to an UpdateState.
C16_UpdateErrorSwallowed ==
    /\ [][\A a \in Slices :
            calls' = << UpdateStateCall(a, TRUE) >> =>
               /\ pc' = "loop"
               /\ lastReportedAddresses' = a
               /\ rejected' = << a >>]_vars
    /\ [](rejected # << >> /\ pc = "loop" => ENABLED IssueQuery)
    /\ [][/\ rejected # << >>
          /\ pc = "query"
          /\ resp' \in {"ok", "dupFast"}
          /\ SameBag(got'.res.elems, rejected[1].elems)
          => pc' \in {"loop", "sleep"} /\ calls' = << >>]_vars

\* a list was refused and a later query resolved to the same addresses
C16_Witness ==
    /\ rejected # << >>
    /\ rejected[1].elems # << >>
    /\ resp \in {"ok", "dupFast"}
    /\ SameBag(got.res.elems, rejected[1].elems)
    /\ pc \in {"loop", "sleep"}
    /\ calls = << >>

\* the successful query just returned resolved to the snapshot's addresses,
\* listed in another order than the snapshot lists them
Reordered(g, lastRep) ==
    /\ g.same
    /\ g.res.elems # lastRep.elems

\* C17: when a successful, non-regressed query returns the snapshot's
\* addresses in another order, its sorted result compares equal to the
\* snapshot and the watcher goes on without calling UpdateState.
C17_ReorderIsNoChange ==
    [][/\ pc = "query"
       /\ resp' \in {"ok", "dupFast"}
       /\ ~lastReportedAddresses.nil
       /\ SameBag(got'.res.elems, lastReportedAddresses.elems)
       /\ got'.res.elems # lastReportedAddresses.elems
       => /\ addressesEqual(SortAddresses(got'.res), lastReportedAddresses)
          /\ pc' \in {"loop", "sleep"}
          /\ calls' = << >>
          /\ lastReportedAddresses' = lastReportedAddresses]_vars

\* a query returned the two addresses of the snapshot the other way round
C17_Witness ==
    /\ resp \in {"ok", "dupFast"}
    /\ Reordered(got, lastReportedAddresses)
    /\ Len(got.res.elems) = 2
    /\ pc \in {"loop", "sleep"}
    /\ calls = << >>

\* C18: a trigger sent while the inner loop runs is pending from then on
\* (calls made since the last restart imply a pending trigger), nothing but
\* the select after a loop break takes it, and it stays until the watcher
\* takes it or returns; when the loop breaks on a query error with the
\* trigger pending, the select can take it at once, the watcher leaves the
\* select only by taking it (or by returning once cancelled), and, unless
\* Close() intervenes, it does issue the next query.
C18_PendingTriggerRestarts ==
    /\ [](pc \in InnerLoop /\ rnCalls > 0 => resolveNow = 1)
    /\ [][resolveNow' < resolveNow => pc = "select" /\ pc' = "loop"]_vars
    /\ [][/\ rnInLoop /\ resolveNow = 1
          /\ pc' # "stopped"
          /\ ~(pc = "select" /\ pc' = "loop")
          => resolveNow' = 1 /\ rnInLoop']_vars
    /\ [][pc = "query" /\ resp' = "error" /\ resolveNow = 1 =>
             pc' = "select" /\ resolveNow' = 1]_vars
    /\ [](pc = "select" /\ resolveNow = 1 => ENABLED SelectResolveNow)
    /\ [][pc = "select" /\ resolveNow = 1 /\ pc' # "select" =>
             \/ pc' = "loop" /\ resolveNow' = 0
             \/ pc' = "stopped" /\ cancelled]_vars
    /\ (pc = "select" /\ resolveNow = 1 /\ rnInLoop) ~> (pc = "query" \/ cancelled)

\* the one trigger sent since the previous restart was sent during the inner
\* loop, and the watcher has just taken it after the loop broke
C18_Witness ==
    /\ pc = "loop"
    /\ resp = "none"
    /\ rnInLoop
    /\ resolveNow = 0
    /\ rnCalls = 0
    /\ consumedCalls = 1
    /\ ~cancelled

\* C19: a failed query leaves the snapshot as it was, through the
\* ReportError, the wait and the triggered restart; the first query to
\* succeed after the failure leads to an UpdateState exactly when it resolved
\* to other addresses than the snapshot held at the failure, and otherwise
\* the watcher goes on without a call.
C19_ErrorKeepsSnapshot ==
    /\ [][pc = "query" /\ resp' = "error" =>
             lastReportedAddresses' = lastReportedAddresses]_vars
    /\ [](errSnap # << >> /\ resp \in {"error", "none"} =>
             lastReportedAddresses = errSnap[1])
    /\ [][(errSnap # << >> /\ pc = "query" /\ pc' # "query"
             /\ resp' \notin {"error", "canceled"}) =>
             /\ resp' \in {"ok", "dupFast"}
             /\ IF /\ ~errSnap[1].nil
                   /\ SameBag(got'.res.elems, errSnap[1].elems)
                THEN pc' \in {"loop", "sleep"} /\ calls' = << >>
                ELSE /\ pc' = "update"
                     /\ errSnap[1].nil \/ addresses'.elems # errSnap[1].elems]_vars

\* after a failure and the restart, the first successful query resolved to
\* the addresses reported before the failure, and nothing was reported
C19_Witness ==
    /\ errSnap # << >>
    /\ errSnap[1].elems # << >>
    /\ resp \in {"ok", "dupFast"}
    /\ got.same
    /\ lastReportedAddresses = errSnap[1]
    /\ pc \in {"loop", "sleep"}
    /\ calls = << >>

\* C20: in every state of the resolver (not started, in the inner loop,
\* sleeping, waiting in the select, stopped) a ResolveNow() call can take
\* its step, whether or not a trigger is pending, and leaves the channel
\* within its capacity; once ResolveNow() has been called after a Close()
\* returned, the watcher stays stopped: no query is issued and neither
\* UpdateState nor ReportError is called.
C20_ResolveNowNeverBlocks ==
    /\ [](ENABLED ResolveNow)
    /\ [](resolveNow \in 0..ResolveNowCap)
    /\ [](rnLate => pc = "stopped" /\ calls = << >> /\ ~ENABLED IssueQuery)
    /\ [][rnLate' => pc' = "stopped" /\ calls' = << >> /\ nUpdate' = nUpdate]_vars

\* ResolveNow() was called after Close() returned, with a trigger pending
C20_Witness ==
    /\ rnLate
    /\ nClosed > 0
    /\ rnCalls >= 2
    /\ resolveNow = ResolveNowCap

====
